---- MODULE Spec2Model ----
(***************************************************************************)
(* go-tail: a handle (Tail) that follows a file across rotations and       *)
(* truncations (NewTailFileWithOptions) or follows an io.Reader            *)
(* (NewTailReaderWithOptions), delivering lines and errors on two          *)
(* channels.  The model follows the current tail.go (WaitGroup wrappers,   *)
(* ctxReader, Options.MaxBytesLine) goroutine by goroutine; every action   *)
(* is one step of one goroutine between two communications.                *)
(*                                                                         *)
(* Bytes are naturals: NL is '\n', every other byte is payload.  The k-th  *)
(* write of an execution carries the payload byte k, so that loss,         *)
(* duplication and reordering of bytes are all visible.                    *)
(***************************************************************************)
EXTENDS Integers, Sequences, FiniteSets, TLC

\* ---------------------------------------------------------------- bounds
\* files ever created at the watched path
MaxFiles == 2
\* files that stand at the path one after the other under SpecOverlap: one more
MaxOverlapFiles == MaxFiles + 1
\* write operations of the environment (file mode)
MaxWrites == 2
\* injected I/O faults (stat, read, watcher, fd-to-path)
MaxFaults == 2
\* capacity of the lines channel (linesCapacity = 1024 in the source, scaled)
LinesCap == 1
\* capacity of the errors channel (errorsCapacity = 16 in the source, scaled)
ErrorsCap == 1
\* default size of the buffered reader (defaultBufSize = 4096, scaled)
DefaultBufSize == 3
\* smallest buffer bufio.NewReaderSize hands out (minReadBufferSize = 16, scaled)
MinReadBufferSize == 2
\* bytes the stream's writer produces in reader mode
MaxStream == 4
\* largest configured Options.MaxBytesLine explored
MaxOpt == 3

NL == 0
Files == 1..MaxOverlapFiles

\* ---------------------------------------------------------------- helpers
Min(a, b) == IF a < b THEN a ELSE b

RECURSIVE IndexNL(_)
\* bytes.IndexByte(s, '\n') + 1: position of the first NL, 0 when there is none
IndexNL(s) ==
  IF s = <<>> THEN 0
  ELSE IF Head(s) = NL THEN 1
  ELSE LET i == IndexNL(Tail(s)) IN IF i = 0 THEN 0 ELSE i + 1

RECURSIVE Flat(_)
\* concatenation of a sequence of byte sequences
Flat(ss) == IF ss = <<>> THEN <<>> ELSE Head(ss) \o Flat(Tail(ss))

RECURSIVE CountNL(_)
CountNL(s) ==
  IF s = <<>> THEN 0
  ELSE (IF Head(s) = NL THEN 1 ELSE 0) + CountNL(Tail(s))

Texts(ls) == [i \in 1..Len(ls) |-> ls[i].text]

Prefix(s, n) == SubSeq(s, 1, n)
Suffix(s, n) == SubSeq(s, n + 1, Len(s))

\* ---------------------------------------------------------------- bufio.Reader
\* Tail.newReader: the buffer size asked of bufio.NewReaderSize
newReaderAsk(o) == IF o # 0 /\ DefaultBufSize > o THEN o ELSE DefaultBufSize

\* bufio.NewReaderSize never hands out less than minReadBufferSize
newReader(o) == IF newReaderAsk(o) < MinReadBufferSize THEN MinReadBufferSize ELSE newReaderAsk(o)

\* a fresh bufio.Reader: no unread bytes, no pending error
NewBufio == [buf |-> <<>>, err |-> "nil"]

\* ReadSlice returns without reading from the source when the buffer holds a
\* delimiter, an error is pending, or the buffer is full
ReadSliceReady(rb, size) ==
  \/ IndexNL(rb.buf) > 0
  \/ rb.err # "nil"
  \/ Len(rb.buf) >= size

\* bufio.Reader.ReadSlice('\n') on a ready reader: the slice, the error, the reader after
ReadSlice(rb, size) ==
  IF IndexNL(rb.buf) > 0
  THEN [line |-> Prefix(rb.buf, IndexNL(rb.buf)), err |-> "nil",
        rb |-> [rb EXCEPT !.buf = Suffix(rb.buf, IndexNL(rb.buf))]]
  ELSE IF rb.err # "nil"
  THEN [line |-> rb.buf, err |-> rb.err, rb |-> NewBufio]
  ELSE [line |-> rb.buf, err |-> "BufferFull", rb |-> [rb EXCEPT !.buf = <<>>]]

\* bufio.Reader.fill after the source's Read returned (data, err)
Fill(rb, data, err) == [buf |-> rb.buf \o data, err |-> err]

\* ---------------------------------------------------------------- tail.tail
\* a carry buffer that keeps only the last slice
CarryOverwrite(carry, line) == line
\* the carry buffer after t.buf.Write(line)
CarryWrite(carry, line) == carry \o line

\* a tail() that sends the carry at every error, end of file included
TailDecideEager(carry, err, o) ==
  IF err = "BufferFull"
  THEN IF o = 0 \/ Len(carry) < o THEN "continue" ELSE "emit"
  ELSE "emit"
\* what tail() does after ReadSlice returned err with the carry already written:
\* "continue" reading the same line, "emit" a Line, or "return" the error
TailDecide(carry, err, o) ==
  IF err = "BufferFull"
  THEN IF o = 0 \/ Len(carry) < o THEN "continue" ELSE "emit"
  ELSE IF err # "nil" THEN "return" ELSE "emit"


\* ---------------------------------------------------------------- state
VARIABLES
  mode,       \* "file" (NewTailFileWithOptions) or "reader" (NewTailReaderWithOptions)
  opts,       \* Options.MaxBytesLine
  rootDone,   \* Tail.ctx is cancelled
  wg,         \* Tail.wg, the counter of the WaitGroup
  lines,      \* buffer of the lines channel: sequence of [src, text]
  errors,     \* buffer of the errors channel: sequence of errors
  closed,     \* how many times each channel has been closed
  sup,        \* Tail.wait: "wait", "errorsClosed", "done"
  closer,     \* the caller of Tail.Close: "idle", "waiting", "returned"
  closer2,    \* a second caller of Tail.Close, after or beside the first
  opener,     \* the goroutine running Tail.runFile/Tail.open: [pc, seek, pend,
              \* watcher, operr (the last error of os.Open)]
  fol,        \* per file, the follower (tail) opened on it
  files,      \* per file, its state in the file system: [st, content]
  path,       \* the file at the watched path, 0 when there is none
  stream,     \* reader mode: the io.Reader: [data, st]
  consuming,  \* the consumer still receives from the channels
  delivered,  \* Lines received by the consumer, in order
  gotErrors,  \* errors received by the consumer, in order
  budget,     \* what the environment may still do:
              \* [files, writes, faults, truncs, removes, renames, stops, closes,
              \* shapes], and marks: whether hist.atRename is kept
  hist        \* history: [written, nwrites, lateSend, wgAtAdd, truncated,
              \* atRename (per file, its size when it was renamed away, kept
              \* under the specifications that set budget.marks)]

vars == <<mode, opts, rootDone, wg, lines, errors, closed, sup, closer, closer2, opener, fol,
          files, path, stream, consuming, delivered, gotErrors, budget, hist>>


\* a tail that does not exist yet
NoFollower ==
  [ev |-> "none", rd |-> "none", cancelled |-> FALSE, renamed |-> FALSE,
   waiting |-> FALSE, cherr |-> <<>>, ch |-> 0, chClosed |-> FALSE, timer |-> "none",
   watching |-> FALSE, fileOpen |-> FALSE,
   pos |-> 0, start |-> 0, rb |-> NewBufio, carry |-> <<>>, pend |-> "nil",
   evpend |-> "nil",
   evq |-> <<>>, got |-> <<>>, sliced |-> <<>>, handoffs |-> 0]

NoFile == [st |-> "none", content |-> <<>>]

\* t.ctx.Done() is ready: the follower's own token or the token it derives from
Done(f) == rootDone \/ fol[f].cancelled

\* the bytes write number k appends, by shape
Chunk(k, shape) ==
  CASE shape = "p" -> <<k>>
    [] shape = "l" -> <<k, NL>>
    [] shape = "n" -> <<NL>>
    [] shape = "ll" -> <<k, NL, k, NL>>

\* ---------------------------------------------------------------- WaitGroup
\* an Add that leaves the counter as it is
WgAddForgotten(w) == w
\* t.wg.Add(1) / parent.wg.Add(1)
WgAdd(w) == w + 1
\* defer t.wg.Done()
WgDone(w) == w - 1
\* the smallest counter value seen by an Add after construction (-1: none yet)
NoteAdd(h, w) == [h EXCEPT !.wgAtAdd = IF @ = -1 THEN w ELSE Min(@, w)]

\* ---------------------------------------------------------------- channels
\* a send on a channel that is already closed panics; the history keeps it
NoteSend(h, n) == [h EXCEPT !.lateSend = h.lateSend \/ n > 0]

\* ---------------------------------------------------------------- the handle
\* Tail.Close: t.cancel(), then t.wg.Wait()
CloseCall ==
  /\ closer = "idle"
  /\ budget.closes > 0
  /\ closer' = "waiting"
  /\ rootDone' = TRUE
  /\ UNCHANGED <<mode, opts, wg, lines, errors, closed, sup, closer2, opener, fol, files,
                 path, stream, consuming, delivered, gotErrors, budget, hist>>

\* a Close that closes the two channels itself before it returns
CloseAlsoCloses(c) == [lines |-> c.lines + 1, errors |-> c.errors + 1]
\* the close counts of the channels after Tail.Close: it cancels, waits and
\* returns nil, and closes neither channel (Tail.wait does)
CloseLeaves(c) == c

\* Tail.Close: t.wg.Wait() returns, Close returns nil
CloseReturn ==
  /\ closer = "waiting"
  /\ wg = 0
  /\ closer' = "returned"
  /\ closed' = CloseLeaves(closed)
  /\ UNCHANGED <<mode, opts, rootDone, wg, lines, errors, sup, closer2, opener, fol, files,
                 path, stream, consuming, delivered, gotErrors, budget, hist>>

\* Tail.Close called once more, after the first call or while it waits:
\* t.cancel() on the token already cancelled
CloseAgainCall ==
  /\ closer # "idle"
  /\ closer2 = "idle"
  /\ budget.closes > 1
  /\ closer2' = "waiting"
  /\ rootDone' = TRUE
  /\ UNCHANGED <<mode, opts, wg, lines, errors, closed, sup, closer, opener, fol, files,
                 path, stream, consuming, delivered, gotErrors, budget, hist>>

\* the second Tail.Close: t.wg.Wait() returns, Close returns nil
CloseAgainReturn ==
  /\ closer2 = "waiting"
  /\ wg = 0
  /\ closer2' = "returned"
  /\ closed' = CloseLeaves(closed)
  /\ UNCHANGED <<mode, opts, rootDone, wg, lines, errors, sup, closer, opener, fol, files,
                 path, stream, consuming, delivered, gotErrors, budget, hist>>

\* a wait that closes the lines channel first
CloseFirstLines(c) == [c EXCEPT !.lines = @ + 1]
\* Tail.wait, first close: close(t.errors)
CloseFirst(c) == [c EXCEPT !.errors = @ + 1]
\* Tail.wait, second close: close(t.lines)
CloseSecond(c) == [c EXCEPT !.lines = @ + 1]

\* Tail.wait: t.wg.Wait() returns, close(t.errors)
SupCloseErrors ==
  /\ sup = "wait"
  /\ wg = 0
  /\ sup' = "errorsClosed"
  /\ closed' = CloseFirst(closed)
  /\ UNCHANGED <<mode, opts, rootDone, wg, lines, errors, closer, closer2, opener, fol, files, path,
                 stream, consuming, delivered, gotErrors, budget, hist>>

\* Tail.wait: close(t.lines)
SupCloseLines ==
  /\ sup = "errorsClosed"
  /\ sup' = "done"
  /\ closed' = CloseSecond(closed)
  /\ UNCHANGED <<mode, opts, rootDone, wg, lines, errors, closer, closer2, opener, fol, files, path,
                 stream, consuming, delivered, gotErrors, budget, hist>>

\* ---------------------------------------------------------------- the consumer
\* line := <-tail.Lines
ConsumeLine ==
  /\ consuming
  /\ lines # <<>>
  /\ delivered' = Append(delivered, Head(lines))
  /\ lines' = Tail(lines)
  /\ UNCHANGED <<mode, opts, rootDone, wg, errors, closed, sup, closer, closer2, opener, fol, files,
                 path, stream, consuming, gotErrors, budget, hist>>

\* err := <-tail.Errors
ConsumeError ==
  /\ consuming
  /\ errors # <<>>
  /\ gotErrors' = Append(gotErrors, Head(errors))
  /\ errors' = Tail(errors)
  /\ UNCHANGED <<mode, opts, rootDone, wg, lines, closed, sup, closer, closer2, opener, fol, files,
                 path, stream, consuming, delivered, budget, hist>>

\* the consumer stops receiving, for good
ConsumerStop ==
  /\ consuming
  /\ budget.stops > 0
  /\ consuming' = FALSE
  /\ UNCHANGED <<mode, opts, rootDone, wg, lines, errors, closed, sup, closer, closer2, opener, fol,
                 files, path, stream, delivered, gotErrors, budget, hist>>


\* ---------------------------------------------------------------- tail.tail
\* a runReader that takes only io.EOF for the end of the stream
RunReaderSurfacesPipe(err) == err \notin {"EOF", "Canceled"}
\* runReader after tail() returned err: EOF and ErrClosedPipe end the follower
\* silently, a cancellation too, any other error is sent on the errors channel
RunReaderSurfaces(err) == err \notin {"EOF", "ClosedPipe", "Canceled"}

\* the follower after ReadSlice returned r and tail() decided d; sliced keeps
\* every byte ReadSlice has returned
AfterReadSlice(r0, r, c, d) ==
  LET r1 == [r0 EXCEPT !.rb = r.rb, !.carry = c, !.sliced = @ \o r.line] IN
  IF d = "continue" THEN r1
  ELSE IF d = "emit" THEN [r1 EXCEPT !.rd = "sendLine"]
  ELSE IF mode = "file" THEN [r1 EXCEPT !.rd = "sendCherr", !.pend = r.err]
  ELSE IF RunReaderSurfaces(r.err) THEN [r1 EXCEPT !.rd = "sendErr", !.pend = r.err]
  ELSE [r1 EXCEPT !.rd = "done"]

RECURSIVE Advance(_)
\* tail(): the loop runs on what the buffered reader holds, ReadSlice by ReadSlice
\* (t.buf.Write(line) and the branch on the error), until it has a Line to send,
\* returns an error, or needs the source
Advance(r0) ==
  IF r0.rd = "tail" /\ ReadSliceReady(r0.rb, newReader(opts))
  THEN LET r == ReadSlice(r0.rb, newReader(opts))
           c == CarryWrite(r0.carry, r.line)
       IN Advance(AfterReadSlice(r0, r, c, TailDecide(c, r.err, opts)))
  ELSE r0

\* tail(): t.parent.lines <- &Line{t.buf.String(), ...}; t.buf.Reset(), and on with
\* the loop.  In reader mode an EOF, ErrClosedPipe or cancellation it then returns
\* ends runReader: deferred t.cancel() (the root's) and wg.Done()
TailSendLine(f) ==
  /\ fol[f].rd = "sendLine"
  /\ Len(lines) < LinesCap
  /\ lines' = Append(lines, [src |-> f, text |-> fol[f].carry])
  /\ LET n == Advance([fol[f] EXCEPT !.carry = <<>>, !.rd = "tail"])
     IN /\ fol' = [fol EXCEPT ![f] = n]
        /\ rootDone' = (rootDone \/ n.rd = "done")
        /\ wg' = IF n.rd = "done" THEN WgDone(wg) ELSE wg
  /\ hist' = NoteSend(hist, closed.lines)
  /\ UNCHANGED <<mode, opts, errors, closed, sup, closer, closer2, opener, files, path,
                 stream, consuming, delivered, gotErrors, budget>>

\* ---------------------------------------------------------------- reader mode
\* bufio fill -> ctxReader.Read -> the stream's Read: some bytes, the stream's
\* end, or, once the token is cancelled, a cancellation (the n bytes the inner
\* goroutine reads are dropped); then tail()'s loop on what was read
\* a Read that waits for the underlying read alone
ReadBlind(f) == FALSE
\* ctxReader.Read: case <-r.ctx.Done() of its select is ready
ReadSeesDone(f) == Done(f)

StreamRead ==
  /\ mode = "reader"
  /\ fol[1].rd = "tail"
  /\ LET free == newReader(opts) - Len(fol[1].rb.buf)
         most == Min(free, Len(stream.data))
     IN \E n \in 0..most, err \in {"nil", "Canceled", stream.st} :
          /\ err = "nil" => n > 0
          /\ err = "Canceled" => ReadSeesDone(1)
          /\ err \notin {"nil", "Canceled"} => (n = 0 /\ stream.data = <<>> /\ err # "open")
          /\ stream' = [stream EXCEPT !.data = Suffix(@, n)]
          /\ LET data == IF err = "nil" THEN Prefix(stream.data, n) ELSE <<>>
                 r == Advance([fol[1] EXCEPT !.rb = Fill(@, data, err), !.got = @ \o data])
             IN /\ fol' = [fol EXCEPT ![1] = r]
                /\ rootDone' = (rootDone \/ r.rd = "done")
                /\ wg' = IF r.rd = "done" THEN WgDone(wg) ELSE wg
  /\ UNCHANGED <<mode, opts, lines, errors, closed, sup, closer, closer2, opener, files,
                 path, consuming, delivered, gotErrors, budget, hist>>

\* runReader: t.parent.errors <- err, then return: t.cancel() and wg.Done()
ReaderSendErr ==
  /\ mode = "reader"
  /\ fol[1].rd = "sendErr"
  /\ Len(errors) < ErrorsCap
  /\ errors' = Append(errors, fol[1].pend)
  /\ fol' = [fol EXCEPT ![1] = [@ EXCEPT !.rd = "done"]]
  /\ rootDone' = TRUE
  /\ wg' = WgDone(wg)
  /\ hist' = NoteSend(hist, closed.errors)
  /\ UNCHANGED <<mode, opts, lines, closed, sup, closer, closer2, opener, files, path, stream,
                 consuming, delivered, gotErrors, budget>>

\* the writer of the stream writes a chunk
StreamWrite ==
  /\ mode = "reader"
  /\ stream.st = "open"
  /\ \E shape \in budget.shapes :
       LET c == Chunk(hist.nwrites + 1, shape)
       IN /\ Len(hist.written) + Len(c) <= budget.writes
          /\ stream' = [stream EXCEPT !.data = @ \o c]
          /\ hist' = [hist EXCEPT !.written = @ \o c, !.nwrites = @ + 1]
  /\ UNCHANGED <<mode, opts, rootDone, wg, lines, errors, closed, sup, closer, closer2, opener, fol,
                 files, path, consuming, delivered, gotErrors, budget>>

\* the stream ends: the writer closes it (EOF), the reader side is closed
\* (io.ErrClosedPipe), or it fails
StreamEnd ==
  /\ mode = "reader"
  /\ stream.st = "open"
  /\ \E st \in {"EOF", "ClosedPipe", "IOErr"} :
       /\ st = "IOErr" => budget.faults > 0
       /\ stream' = [stream EXCEPT !.st = st]
       /\ budget' = IF st = "IOErr" THEN [budget EXCEPT !.faults = @ - 1] ELSE budget
  /\ UNCHANGED <<mode, opts, rootDone, wg, lines, errors, closed, sup, closer, closer2, opener, fol,
                 files, path, consuming, delivered, gotErrors, hist>>


\* ---------------------------------------------------------------- file mode: the reader task
\* a restrict that seeks to the end of a truncated file
restrictToSize(size, pos) == IF size < pos THEN size ELSE pos
\* a restrict that rewinds whatever the size
restrictAlways(size, pos) == 0
\* tail.restrict: the cursor after comparing it with the file's size
restrict(size, pos) == IF size < pos THEN 0 ELSE pos

\* the reader goroutine returns: deferred t.parent.wg.Done()
ReaderExit(r) == [r EXCEPT !.rd = "done"]

\* reader goroutine: t.restrict(); a Stat or Seek failure is reported on cherr
RdRestrict(f) ==
  /\ fol[f].rd = "restrict"
  /\ \/ /\ fol' = [fol EXCEPT ![f] = [@ EXCEPT
                     !.pos = restrict(Len(files[f].content), @), !.rd = "tail"]]
        /\ budget' = budget
     \/ /\ budget.faults > 0
        /\ fol' = [fol EXCEPT ![f] = [@ EXCEPT !.rd = "reportErr", !.pend = "IOErr"]]
        /\ budget' = [budget EXCEPT !.faults = @ - 1]
  /\ UNCHANGED <<mode, opts, rootDone, wg, lines, errors, closed, sup, closer, closer2, opener, files,
                 path, stream, consuming, delivered, gotErrors, hist>>

\* the bytes a Read of the file at cursor pos puts into free bytes of buffer
FileBytes(content, pos, free) ==
  IF pos < Len(content) THEN SubSeq(content, pos + 1, Min(Len(content), pos + free)) ELSE <<>>

\* bufio fill -> ctxReader.Read -> file.Read: bytes from the cursor on, io.EOF at
\* the end, a read error, or, once the token is cancelled, a cancellation (the
\* inner goroutine's read may still have moved the cursor); then tail()'s loop on
\* what was read
FileRead(f) ==
  /\ mode = "file"
  /\ fol[f].rd = "tail"
  /\ LET data == FileBytes(files[f].content, fol[f].pos, newReader(opts) - Len(fol[f].rb.buf))
     IN \/ /\ fol' = [fol EXCEPT ![f] = Advance([@ EXCEPT
                        !.rb = Fill(@, data, IF data = <<>> THEN "EOF" ELSE "nil"),
                        !.pos = @ + Len(data),
                        !.got = @ \o data])]
           /\ budget' = budget
        \/ /\ budget.faults > 0
           /\ fol' = [fol EXCEPT ![f] = Advance([@ EXCEPT !.rb = Fill(@, <<>>, "IOErr")])]
           /\ budget' = [budget EXCEPT !.faults = @ - 1]
        \/ /\ ReadSeesDone(f)
           /\ \E moved \in {0, Len(data)} :
                fol' = [fol EXCEPT ![f] = Advance([@ EXCEPT
                          !.rb = Fill(@, <<>>, "Canceled"), !.pos = @ + moved])]
           /\ budget' = budget
  /\ UNCHANGED <<mode, opts, rootDone, wg, lines, errors, closed, sup, closer, closer2, opener, files,
                 path, stream, consuming, delivered, gotErrors, hist>>

\* reader goroutine after a failed restrict: select { cherr <- err; <-ctx.Done() }; return
RdReportErr(f) ==
  /\ fol[f].rd = "reportErr"
  /\ \/ /\ Len(fol[f].cherr) < 1
        /\ fol' = [fol EXCEPT ![f] = ReaderExit([@ EXCEPT !.cherr = <<fol[f].pend>>])]
     \/ /\ Done(f)
        /\ fol' = [fol EXCEPT ![f] = ReaderExit(@)]
  /\ wg' = WgDone(wg)
  /\ UNCHANGED <<mode, opts, rootDone, lines, errors, closed, sup, closer, closer2, opener, files,
                 path, stream, consuming, delivered, gotErrors, budget, hist>>

\* reader goroutine after tail() returned err:
\* select { cherr <- err; <-ctx.Done(): return }
RdSendCherr(f) ==
  /\ fol[f].rd = "sendCherr"
  /\ \/ /\ Len(fol[f].cherr) < 1
        /\ fol' = [fol EXCEPT ![f] = [@ EXCEPT !.cherr = <<fol[f].pend>>, !.rd = "park"]]
        /\ wg' = wg
     \/ /\ Done(f)
        /\ fol' = [fol EXCEPT ![f] = ReaderExit(@)]
        /\ wg' = WgDone(wg)
  /\ UNCHANGED <<mode, opts, rootDone, lines, errors, closed, sup, closer, closer2, opener, files,
                 path, stream, consuming, delivered, gotErrors, budget, hist>>

\* reader goroutine parked: select { _, ok := <-ch; <-ctx.Done(): return }
RdPark(f) ==
  /\ fol[f].rd = "park"
  /\ \/ /\ fol[f].ch > 0
        /\ fol' = [fol EXCEPT ![f] = [@ EXCEPT !.ch = @ - 1, !.rd = "restrict"]]
        /\ wg' = wg
     \/ /\ fol[f].ch = 0
        /\ fol[f].chClosed
        /\ fol' = [fol EXCEPT ![f] = ReaderExit(@)]
        /\ wg' = WgDone(wg)
     \/ /\ Done(f)
        /\ fol' = [fol EXCEPT ![f] = ReaderExit(@)]
        /\ wg' = WgDone(wg)
  /\ UNCHANGED <<mode, opts, rootDone, lines, errors, closed, sup, closer, closer2, opener, files,
                 path, stream, consuming, delivered, gotErrors, budget, hist>>

\* ---------------------------------------------------------------- file mode: the event task
\* tail.runFile returns: deferred close(ch), t.cancel(), t.watcher.Close() (the
\* events still queued go with the watcher); the file itself is not closed
\* a deferred cancel that reaches the token the Tail itself waits on
ExitCancelsRoot(root) == TRUE
\* the root token after tail.runFile's deferred t.cancel(): the follower's token
\* is a child made by context.WithCancel(t.ctx), cancelling it leaves t.ctx alone
ExitCancels(root) == root

EventExit(r) ==
  [r EXCEPT !.ev = "done", !.chClosed = TRUE, !.cancelled = TRUE, !.watching = FALSE,
            !.evq = <<>>]

\* a goroutine running Tail.runFile that has not started yet
NewOpener(seek) ==
  [pc |-> "try", seek |-> seek, pend |-> "nil", watcher |-> FALSE, operr |-> "nil"]

\* tail.runFile: t.parent.wg.Add(1); go func() { reader loop }
EvStart(f) ==
  /\ fol[f].ev = "start"
  /\ wg' = WgAdd(wg)
  /\ hist' = NoteAdd(hist, wg)
  /\ fol' = [fol EXCEPT ![f] = [@ EXCEPT !.ev = "select", !.rd = "restrict"]]
  /\ UNCHANGED <<mode, opts, rootDone, lines, errors, closed, sup, closer, closer2, opener, files,
                 path, stream, consuming, delivered, gotErrors, budget>>

\* the event loop surfaces what the reader sent on cherr unless it is io.EOF
CherrSurfaces(err) == err # "EOF"

\* the follower after the rename branch, first rename or not, with outcome
\* res of getFileName and watcher.Add
\* a rename branch that hands off at every rename event
EveryRename(r) == TRUE
\* tail.runFile, rename branch: if !renamed { spawn Tail.runFile; start the timer }
FirstRename(r) == ~r.renamed

AfterRename(r, res) ==
  IF res # "nil"
  THEN [r EXCEPT !.evq = Tail(@), !.ev = "sendErr", !.evpend = res,
                 !.timer = IF FirstRename(r) THEN "armed" ELSE @,
                 !.handoffs = IF FirstRename(r) THEN @ + 1 ELSE @]
  ELSE [r EXCEPT !.evq = Tail(@), !.renamed = TRUE,
                 !.ev = IF r.waiting THEN "wake" ELSE "select",
                 !.timer = IF FirstRename(r) THEN "armed" ELSE @,
                 !.handoffs = IF FirstRename(r) THEN @ + 1 ELSE @]

\* event loop: case event := <-t.watcher.Events
\* an event loop that takes no event for a removal
HasRemoveNever(e) == FALSE
\* tail.runFile: event.Op.Has(fsnotify.Remove)
HasRemove(e) == e = "rm"

\* a removal branch that opens the path again, as the rename branch does
RemoveReopens(o, f) == [o EXCEPT ![f] = NewOpener("start")]
\* tail.runFile, removal branch: return; no Tail.runFile is started for the path
RemoveReturns(o, f) == o

EvEvent(f) ==
  /\ fol[f].ev = "select"
  /\ fol[f].evq # <<>>
  /\ LET e == Head(fol[f].evq) IN
     IF HasRemove(e)
     THEN /\ fol' = [fol EXCEPT ![f] = EventExit([@ EXCEPT !.evq = Tail(@)])]
          /\ rootDone' = ExitCancels(rootDone)
          /\ wg' = WgDone(wg)
          /\ opener' = RemoveReturns(opener, f)
          /\ UNCHANGED <<budget, hist>>
     ELSE IF e = "mv"
     THEN /\ \E res \in {"nil", "PathErr", "WatchErr"} :
               /\ res # "nil" => budget.faults > 0
               /\ fol' = [fol EXCEPT ![f] = AfterRename(@, res)]
               /\ budget' = IF res # "nil" THEN [budget EXCEPT !.faults = @ - 1] ELSE budget
          /\ wg' = IF FirstRename(fol[f]) THEN WgAdd(wg) ELSE wg
          /\ hist' = IF FirstRename(fol[f]) THEN NoteAdd(hist, wg) ELSE hist
          /\ opener' = IF FirstRename(fol[f])
                       THEN [opener EXCEPT ![f] = NewOpener("start")] ELSE opener
          /\ UNCHANGED rootDone
     ELSE /\ fol' = [fol EXCEPT ![f] = [@ EXCEPT !.evq = Tail(@),
                        !.ev = IF fol[f].waiting THEN "wake" ELSE "select"]]
          /\ UNCHANGED <<rootDone, wg, opener, budget, hist>>
  /\ UNCHANGED <<mode, opts, lines, errors, closed, sup, closer, closer2, files, path,
                 stream, consuming, delivered, gotErrors>>

\* event loop: ch <- struct{}{}; waiting = false
\* a wake that leaves the flag as it was
WakeKeepsFlag(w) == w
\* tail.runFile after ch <- struct{}{}: waiting = false
WakeClearsFlag(w) == FALSE

EvWake(f) ==
  /\ fol[f].ev = "wake"
  /\ fol[f].ch < 1
  /\ fol' = [fol EXCEPT ![f] = [@ EXCEPT !.ch = @ + 1, !.waiting = WakeClearsFlag(@),
                                         !.ev = "select"]]
  /\ UNCHANGED <<mode, opts, rootDone, wg, lines, errors, closed, sup, closer, closer2, opener, files,
                 path, stream, consuming, delivered, gotErrors, budget, hist>>

\* event loop: case err := <-cherr
EvCherr(f) ==
  /\ fol[f].ev = "select"
  /\ fol[f].cherr # <<>>
  /\ fol' = [fol EXCEPT ![f] =
       IF CherrSurfaces(Head(fol[f].cherr))
       THEN [@ EXCEPT !.cherr = <<>>, !.ev = "sendErr", !.evpend = Head(fol[f].cherr)]
       ELSE [@ EXCEPT !.cherr = <<>>, !.waiting = TRUE]]
  /\ UNCHANGED <<mode, opts, rootDone, wg, lines, errors, closed, sup, closer, closer2, opener, files,
                 path, stream, consuming, delivered, gotErrors, budget, hist>>

\* event loop: case err := <-t.watcher.Errors
EvWatcherErr(f) ==
  /\ fol[f].ev = "select"
  /\ budget.faults > 0
  /\ budget' = [budget EXCEPT !.faults = @ - 1]
  /\ fol' = [fol EXCEPT ![f] = [@ EXCEPT !.ev = "sendErr", !.evpend = "WatchErr"]]
  /\ UNCHANGED <<mode, opts, rootDone, wg, lines, errors, closed, sup, closer, closer2, opener, files,
                 path, stream, consuming, delivered, gotErrors, hist>>

\* event loop: case <-t.ctx.Done(): return
EvDone(f) ==
  /\ fol[f].ev = "select"
  /\ Done(f)
  /\ fol' = [fol EXCEPT ![f] = EventExit(@)]
  /\ rootDone' = ExitCancels(rootDone)
  /\ wg' = WgDone(wg)
  /\ UNCHANGED <<mode, opts, lines, errors, closed, sup, closer, closer2, opener, files,
                 path, stream, consuming, delivered, gotErrors, budget, hist>>

\* event loop: t.parent.errors <- err; return
EvSendErr(f) ==
  /\ fol[f].ev = "sendErr"
  /\ Len(errors) < ErrorsCap
  /\ errors' = Append(errors, fol[f].evpend)
  /\ hist' = NoteSend(hist, closed.errors)
  /\ fol' = [fol EXCEPT ![f] = EventExit(@)]
  /\ rootDone' = ExitCancels(rootDone)
  /\ wg' = WgDone(wg)
  /\ UNCHANGED <<mode, opts, lines, closed, sup, closer, closer2, opener, files, path,
                 stream, consuming, delivered, gotErrors, budget>>

\* the grace timer goroutine: case <-timer.C: t.cancel()
TimerFire(f) ==
  /\ fol[f].timer = "armed"
  /\ ~Done(f)
  /\ fol' = [fol EXCEPT ![f] = [@ EXCEPT !.timer = "fired", !.cancelled = TRUE]]
  /\ UNCHANGED <<mode, opts, rootDone, wg, lines, errors, closed, sup, closer, closer2, opener, files,
                 path, stream, consuming, delivered, gotErrors, budget, hist>>


\* ---------------------------------------------------------------- file mode: Tail.runFile and Tail.open
Openers == 0..MaxOverlapFiles

NoOpener ==
  [pc |-> "none", seek |-> "start", pend |-> "nil", watcher |-> FALSE, operr |-> "nil"]

\* file.Seek(0, seek): the cursor the follower starts at
SeekPos(seek, size) == IF seek = "end" THEN size ELSE 0

\* a retry that keeps the anchor it was given
RetrySeekKeep(seek) == seek
\* Tail.open, after a failed os.Open: seek = io.SeekStart
RetrySeek(seek) == "start"

\* a Tail.runFile that sends every error of Tail.open
RunFileSurfacesAll(err) == TRUE
\* Tail.runFile sends the error of Tail.open unless it is a cancellation
RunFileSurfaces(err) == err # "Canceled"

\* a Tail.runFile that returns without counting the follower it starts
HandOverUncounted(w) == WgDone(w)
\* Tail.runFile with a follower: t.wg.Add(1); go child.runFile(); return, and the
\* caller's deferred wg.Done()
HandOver(w) == WgDone(WgAdd(w))

\* the tail Tail.open returns: file, reader, watcher and a token derived from the root's
NewFollower(seek, size) ==
  [NoFollower EXCEPT !.ev = "start", !.watching = TRUE, !.fileOpen = TRUE,
                     !.pos = SeekPos(seek, size), !.start = SeekPos(seek, size)]

\* Tail.open: fsnotify.NewWatcher() fails, before the first attempt
OpenNoWatcher(k) ==
  /\ opener[k].pc = "try"
  /\ ~opener[k].watcher
  /\ budget.faults > 0
  /\ opener' = [opener EXCEPT ![k] = [@ EXCEPT !.pc = "sendErr", !.pend = "WatchErr"]]
  /\ budget' = [budget EXCEPT !.faults = @ - 1]
  /\ UNCHANGED <<mode, opts, rootDone, wg, lines, errors, closed, sup, closer, closer2, fol, files,
                 path, stream, consuming, delivered, gotErrors, hist>>

\* Tail.open: (NewWatcher, on the first attempt, or the retry timer;) os.Open succeeds;
\* Seek and watcher.Add; on success Tail.runFile
\* counts and starts the follower and returns (wg.Add(1), then the deferred wg.Done())
OpenSucceed(k) ==
  /\ opener[k].pc \in {"try", "wait"}
  /\ path # 0
  /\ \E res \in {"nil", "SeekErr", "WatchErr"} :
       /\ res # "nil" => budget.faults > 0
       /\ budget' = IF res # "nil" THEN [budget EXCEPT !.faults = @ - 1] ELSE budget
       /\ IF res # "nil"
          THEN /\ opener' = [opener EXCEPT ![k] =
                    [@ EXCEPT !.pc = "sendErr", !.pend = res, !.watcher = FALSE,
                              !.operr = "nil"]]
               /\ UNCHANGED <<fol, wg, hist>>
          ELSE /\ opener' = [opener EXCEPT ![k] =
                    [@ EXCEPT !.pc = "done", !.watcher = FALSE, !.operr = "nil"]]
               /\ fol' = [fol EXCEPT ![path] =
                    NewFollower(opener[k].seek, Len(files[path].content))]
               /\ wg' = HandOver(wg)
               /\ hist' = NoteAdd(hist, wg)
  /\ UNCHANGED <<mode, opts, rootDone, lines, errors, closed, sup, closer, closer2, files, path,
                 stream, consuming, delivered, gotErrors>>

\* Tail.open: the first os.Open fails (no file at the path, or any other failure):
\* seek = io.SeekStart and wait for the retry timer; a later attempt that fails
\* changes nothing
OpenFail(k) ==
  /\ opener[k].pc = "try"
  /\ \E err \in {"NotExist", "OpenErr"} :
       /\ err = "NotExist" => (path = 0 /\ budget' = budget)
       /\ err = "OpenErr" =>
            /\ path # 0
            /\ budget.faults > 0
            /\ budget' = [budget EXCEPT !.faults = @ - 1]
       /\ opener' = [opener EXCEPT ![k] =
            [@ EXCEPT !.pc = "wait", !.seek = RetrySeek(@), !.watcher = TRUE,
                      !.operr = err]]
  /\ UNCHANGED <<mode, opts, rootDone, wg, lines, errors, closed, sup, closer, closer2, fol, files,
                 path, stream, consuming, delivered, gotErrors, hist>>

\* a retry wait that does not look at the token
OpenNeverDone == FALSE
\* Tail.open, waiting for the retry timer: case <-t.ctx.Done() is ready
OpenSeesDone == rootDone

\* Tail.open: case <-t.ctx.Done(): return nil, t.ctx.Err(); Tail.runFile drops
\* the cancellation and returns; the watcher is left as it is
OpenCancel(k) ==
  /\ opener[k].pc = "wait"
  /\ OpenSeesDone
  /\ opener' = [opener EXCEPT ![k] =
       IF RunFileSurfaces("Canceled")
       THEN [@ EXCEPT !.pc = "sendErr", !.pend = "Canceled"]
       ELSE [@ EXCEPT !.pc = "done"]]
  /\ wg' = IF RunFileSurfaces("Canceled") THEN wg ELSE WgDone(wg)
  /\ UNCHANGED <<mode, opts, rootDone, lines, errors, closed, sup, closer, closer2, fol, files, path,
                 stream, consuming, delivered, gotErrors, budget, hist>>

\* Tail.runFile: t.errors <- err; return
OpenSendErr(k) ==
  /\ opener[k].pc = "sendErr"
  /\ Len(errors) < ErrorsCap
  /\ errors' = Append(errors, opener[k].pend)
  /\ hist' = NoteSend(hist, closed.errors)
  /\ opener' = [opener EXCEPT ![k] = [@ EXCEPT !.pc = "done"]]
  /\ wg' = WgDone(wg)
  /\ UNCHANGED <<mode, opts, rootDone, lines, closed, sup, closer, closer2, fol, files, path, stream,
                 consuming, delivered, gotErrors, budget>>

\* ---------------------------------------------------------------- file mode: the file system
\* the watcher of the follower of file f, while open, queues event e
Notify(fl, f, e) ==
  IF fl[f].watching THEN [fl EXCEPT ![f] = [@ EXCEPT !.evq = Append(@, e)]] ELSE fl

Created == {f \in Files : files[f].st # "none"}
Live(f) == files[f].st \in {"atPath", "renamed"}

\* a new file is created at the watched path
EnvCreate ==
  /\ mode = "file"
  /\ path = 0
  /\ Cardinality(Created) < budget.files
  /\ LET f == Cardinality(Created) + 1 IN
       /\ files' = [files EXCEPT ![f] = [st |-> "atPath", content |-> <<>>]]
       /\ path' = f
  /\ UNCHANGED <<mode, opts, rootDone, wg, lines, errors, closed, sup, closer, closer2, opener, fol,
                 stream, consuming, delivered, gotErrors, budget, hist>>

\* a writer appends to a file, at the path or renamed
EnvWrite(f) ==
  /\ mode = "file"
  /\ Live(f)
  /\ budget.writes > 0
  /\ \E shape \in budget.shapes :
       LET c == Chunk(hist.nwrites + 1, shape) IN
         /\ files' = [files EXCEPT ![f] = [@ EXCEPT !.content = @ \o c]]
         /\ hist' = [hist EXCEPT !.written = @ \o c, !.nwrites = @ + 1]
  /\ budget' = [budget EXCEPT !.writes = @ - 1]
  /\ fol' = Notify(fol, f, "w")
  /\ UNCHANGED <<mode, opts, rootDone, wg, lines, errors, closed, sup, closer, closer2, opener, path,
                 stream, consuming, delivered, gotErrors>>

\* the file at the path is renamed away (rotation)
EnvRename ==
  /\ mode = "file"
  /\ path # 0
  /\ budget.renames > 0
  /\ budget' = [budget EXCEPT !.renames = @ - 1]
  /\ files' = [files EXCEPT ![path] = [@ EXCEPT !.st = "renamed"]]
  /\ path' = 0
  /\ fol' = Notify(fol, path, "mv")
  /\ hist' = IF budget.marks
             THEN [hist EXCEPT !.atRename[path] = Len(files[path].content)] ELSE hist
  /\ UNCHANGED <<mode, opts, rootDone, wg, lines, errors, closed, sup, closer, closer2, opener,
                 stream, consuming, delivered, gotErrors>>

\* a file is removed
EnvRemove(f) ==
  /\ mode = "file"
  /\ Live(f)
  /\ budget.removes > 0
  /\ budget' = [budget EXCEPT !.removes = @ - 1]
  /\ files' = [files EXCEPT ![f] = [@ EXCEPT !.st = "removed"]]
  /\ path' = IF path = f THEN 0 ELSE path
  /\ fol' = Notify(fol, f, "rm")
  /\ UNCHANGED <<mode, opts, rootDone, wg, lines, errors, closed, sup, closer, closer2, opener,
                 stream, consuming, delivered, gotErrors, hist>>

\* a file is truncated in place
EnvTruncate(f) ==
  /\ mode = "file"
  /\ Live(f)
  /\ files[f].content # <<>>
  /\ budget.truncs > 0
  /\ budget' = [budget EXCEPT !.truncs = @ - 1]
  /\ files' = [files EXCEPT ![f] = [@ EXCEPT !.content = <<>>]]
  /\ hist' = [hist EXCEPT !.truncated = @ \cup {f}]
  /\ fol' = Notify(fol, f, "w")
  /\ UNCHANGED <<mode, opts, rootDone, wg, lines, errors, closed, sup, closer, closer2, opener, path,
                 stream, consuming, delivered, gotErrors>>

\* the rotated file is renamed once more; its follower's watcher, added on the
\* new name, reports it
EnvRenameOld(f) ==
  /\ mode = "file"
  /\ files[f].st = "renamed"
  /\ budget.renames > 0
  /\ budget' = [budget EXCEPT !.renames = @ - 1]
  /\ fol' = Notify(fol, f, "mv")
  /\ UNCHANGED <<mode, opts, rootDone, wg, lines, errors, closed, sup, closer, closer2,
                 opener, files, path, stream, consuming, delivered, gotErrors, hist>>

\* ---------------------------------------------------------------- specifications
\* truncations, renames and removals of the environment
MaxTruncs == 1
MaxRenames == 1
MaxRemoves == 1
\* write operations on the single file of SpecSingle and SpecLines
MaxSingleWrites == 3
\* write operations on the file of SpecWhole
MaxWholeWrites == 4
\* write operations under FairSpec, SpecFatal and SpecGrace
MaxFairWrites == 1

InitCommon ==
  /\ rootDone = FALSE
  /\ wg = 1
  /\ lines = <<>>
  /\ errors = <<>>
  /\ closed = [lines |-> 0, errors |-> 0]
  /\ sup = "wait"
  /\ closer = "idle"
  /\ closer2 = "idle"
  /\ files = [f \in Files |-> NoFile]
  /\ path = 0
  /\ stream = [data |-> <<>>, st |-> "open"]
  /\ consuming = TRUE
  /\ delivered = <<>>
  /\ gotErrors = <<>>
  /\ hist = [written |-> <<>>, nwrites |-> 0, lateSend |-> FALSE, wgAtAdd |-> -1,
            truncated |-> {}, atRename |-> [f \in Files |-> 0]]

\* NewTailFileWithOptions: wg.Add(1); go runFile(os.SEEK_END); go wait()
InitFile ==
  /\ mode = "file"
  /\ opener = [k \in Openers |-> IF k = 0 THEN NewOpener("end") ELSE NoOpener]
  /\ fol = [f \in Files |-> NoFollower]

\* NewTailReaderWithOptions: wg.Add(1); go runReader(); go wait()
InitReaderMode ==
  /\ mode = "reader"
  /\ opener = [k \in Openers |-> NoOpener]
  /\ fol = [f \in Files |-> IF f = 1 THEN [NoFollower EXCEPT !.rd = "tail"] ELSE NoFollower]

\* what the environment does not do unless a specification grants it
NoBudget ==
  [files |-> 0, writes |-> 0, faults |-> 0, truncs |-> 0, removes |-> 0, renames |-> 0,
   stops |-> 0, closes |-> 0, shapes |-> {"l"}, marks |-> FALSE]

\* the caller and the consumer of the handle, and Tail.wait
HandleNext ==
  \/ CloseCall \/ CloseReturn \/ SupCloseErrors \/ SupCloseLines
  \/ ConsumeLine \/ ConsumeError

\* the goroutines of file mode and the writers of the files
FileNext ==
  \/ \E f \in Files :
       \/ TailSendLine(f) \/ RdRestrict(f) \/ FileRead(f) \/ RdSendCherr(f) \/ RdPark(f)
       \/ EvStart(f) \/ EvEvent(f) \/ EvWake(f) \/ EvCherr(f) \/ EvDone(f) \/ EvSendErr(f)
       \/ EnvWrite(f)
  \/ \E k \in Openers : OpenSucceed(k) \/ OpenFail(k) \/ OpenCancel(k)
  \/ EnvCreate

\* rotation of the watched path and the grace timer it starts
RotateNext == EnvRename \/ \E f \in Files : TimerFire(f)

\* the steps only a fault leads to, and a consumer that stops receiving
FaultNext ==
  \/ \E f \in Files : RdReportErr(f) \/ EvWatcherErr(f)
  \/ \E k \in Openers : OpenNoWatcher(k) \/ OpenSendErr(k)
  \/ ConsumerStop

\* truncation in place and removal
DamageNext == \E f \in Files : EnvTruncate(f) \/ EnvRemove(f)

\* the follower of reader mode and the writer of its stream
ReaderNext ==
  \/ StreamRead \/ ReaderSendErr \/ StreamWrite \/ StreamEnd \/ TailSendLine(1)

\* Spec: either mode, with faults, one rotation of the first file, a consumer that
\* may stop and a caller that may close, over whole-line writes
Init ==
  /\ InitCommon
  /\ opts = 0
  /\ InitFile \/ InitReaderMode
  /\ budget = [NoBudget EXCEPT !.files = 1, !.writes = MaxWrites, !.faults = MaxFaults,
                               !.renames = MaxRenames, !.stops = 1, !.closes = 1]

Next == HandleNext \/ FileNext \/ RotateNext \/ FaultNext \/ ReaderNext

Spec == Init /\ [][Next]_vars

\* SpecRotate: file mode without faults: MaxFiles files at the path, rotated
\* MaxRenames times, whole-line writes to any of them, Close at any time
InitRotate ==
  /\ InitCommon
  /\ opts = 0
  /\ InitFile
  /\ budget = [NoBudget EXCEPT !.files = MaxFiles, !.writes = MaxWrites,
                               !.renames = MaxRenames, !.closes = 1]

SpecRotate == InitRotate /\ [][HandleNext \/ FileNext \/ RotateNext]_vars

\* SpecSingle: file mode on one file: partial and whole-line writes, a truncation
\* in place, a removal, Close at any time
InitSingle ==
  /\ InitCommon
  /\ opts = 0
  /\ InitFile
  /\ budget = [NoBudget EXCEPT !.files = 1, !.writes = MaxSingleWrites,
                               !.truncs = MaxTruncs, !.removes = MaxRemoves, !.closes = 1,
                               !.shapes = {"p", "l"}]

SpecSingle == InitSingle /\ [][HandleNext \/ FileNext \/ DamageNext]_vars

\* SpecLines: either mode under every MaxBytesLine up to MaxOpt: one file or
\* stream, written in partial lines and whole lines
InitLines ==
  /\ InitCommon
  /\ opts \in 0..MaxOpt
  /\ InitFile \/ InitReaderMode
  /\ budget = [NoBudget EXCEPT !.files = 1, !.writes = MaxSingleWrites, !.closes = 1,
                               !.shapes = {"p", "l"}]

SpecLines ==
  InitLines /\ [][HandleNext \/ FileNext \/ StreamRead \/ StreamWrite \/ StreamEnd]_vars

\* SpecWhole: file mode on one file with MaxBytesLine unset: partial and
\* whole-line writes that together outgrow the reader's buffer, Close at any time
InitWhole ==
  /\ InitCommon
  /\ opts = 0
  /\ InitFile
  /\ budget = [NoBudget EXCEPT !.files = 1, !.writes = MaxWholeWrites, !.closes = 1,
                               !.shapes = {"p", "l"}]

SpecWhole == InitWhole /\ [][HandleNext \/ FileNext]_vars

\* SpecFatal: file mode with one injected fault, MaxFiles files at the path and
\* a rotation, a consumer that keeps receiving, Close at any time
FatalNext ==
  \/ \E f \in Files : RdReportErr(f) \/ EvWatcherErr(f)
  \/ \E k \in Openers : OpenNoWatcher(k) \/ OpenSendErr(k)

InitFatal ==
  /\ InitCommon
  /\ opts = 0
  /\ InitFile
  /\ budget = [NoBudget EXCEPT !.files = MaxFiles, !.writes = MaxFairWrites, !.faults = 1,
                               !.renames = MaxRenames, !.closes = 1]

SpecFatal == InitFatal /\ [][HandleNext \/ FileNext \/ RotateNext \/ FatalNext]_vars

\* SpecClose: either mode without faults, one file written once, and Close
\* called twice, the second call after the first or while the first waits
InitClose ==
  /\ InitCommon
  /\ opts = 0
  /\ InitFile \/ InitReaderMode
  /\ budget = [NoBudget EXCEPT !.files = 1, !.writes = MaxWrites, !.closes = 2]

SpecClose ==
  InitClose /\ [][\/ HandleNext \/ CloseAgainCall \/ CloseAgainReturn \/ FileNext
                   \/ StreamRead \/ StreamWrite \/ StreamEnd]_vars

\* SpecHandoff: file mode on one file that is rotated and then renamed again,
\* written to at any time, Close at any time
InitHandoff ==
  /\ InitCommon
  /\ opts = 0
  /\ InitFile
  /\ budget = [NoBudget EXCEPT !.files = 1, !.writes = MaxFairWrites,
                               !.renames = MaxRenames + 1, !.closes = 1]

SpecHandoff ==
  InitHandoff /\ [][\/ HandleNext \/ FileNext \/ RotateNext
                     \/ \E f \in Files : EnvRenameOld(f)]_vars

\* SpecOverlap: file mode with the path rotated once more than under SpecRotate
\* and a file for each rotation, one write, and a caller that never closes
OverlapNext ==
  \/ ConsumeLine \/ ConsumeError
  \/ \E f \in Files :
       \/ TailSendLine(f) \/ RdRestrict(f) \/ FileRead(f) \/ RdSendCherr(f) \/ RdPark(f)
       \/ EvStart(f) \/ EvEvent(f) \/ EvWake(f) \/ EvCherr(f) \/ EvDone(f) \/ EvSendErr(f)
       \/ EnvWrite(f) \/ TimerFire(f)
  \/ \E k \in Openers : OpenSucceed(k) \/ OpenFail(k)
  \/ EnvCreate \/ EnvRename

InitOverlap ==
  /\ InitCommon
  /\ opts = 0
  /\ InitFile
  /\ budget = [NoBudget EXCEPT !.files = MaxOverlapFiles, !.writes = MaxFairWrites,
                               !.renames = MaxOverlapFiles - 1]

SpecOverlap == InitOverlap /\ [][OverlapNext]_vars

\* SpecTrunc: file mode on one file written in partial and whole lines and
\* truncated in place, Close at any time
InitTrunc ==
  /\ InitCommon
  /\ opts = 0
  /\ InitFile
  /\ budget = [NoBudget EXCEPT !.files = 1, !.writes = MaxWrites, !.truncs = MaxTruncs,
                               !.closes = 1, !.shapes = {"p", "l"}]

SpecTrunc == InitTrunc /\ [][HandleNext \/ FileNext \/ \E f \in Files : EnvTruncate(f)]_vars

\* SpecGrace: file mode, MaxFiles files and a rotation, one write to either
\* file, Close at any time; the size of a file at its rename is kept
InitGrace ==
  /\ InitCommon
  /\ opts = 0
  /\ InitFile
  /\ budget = [NoBudget EXCEPT !.files = MaxFiles, !.writes = MaxFairWrites,
                               !.renames = MaxRenames, !.closes = 1, !.marks = TRUE]

SpecGrace == InitGrace /\ [][HandleNext \/ FileNext \/ RotateNext]_vars

\* SpecReader: reader mode alone, over every MaxBytesLine up to MaxOpt
InitReader ==
  /\ InitCommon
  /\ opts \in 0..MaxOpt
  /\ InitReaderMode
  /\ budget = [NoBudget EXCEPT !.writes = MaxStream, !.faults = 1, !.stops = 1, !.closes = 1,
                               !.shapes = {"p", "l", "n", "ll"}]

SpecReader == InitReader /\ [][HandleNext \/ ConsumerStop \/ ReaderNext]_vars

\* ---------------------------------------------------------------- goroutines
\* the steps of the reader goroutine of follower f (in reader mode, of runReader)
ReaderStep(f) ==
  \/ TailSendLine(f) \/ RdRestrict(f) \/ FileRead(f) \/ RdReportErr(f) \/ RdSendCherr(f)
  \/ RdPark(f)
  \/ f = 1 /\ (StreamRead \/ ReaderSendErr)

\* the steps of the goroutine running tail.runFile for follower f
EventStep(f) ==
  \/ EvStart(f) \/ EvEvent(f) \/ EvWake(f) \/ EvCherr(f) \/ EvWatcherErr(f) \/ EvDone(f)
  \/ EvSendErr(f)

\* the steps of the goroutine running Tail.runFile number k
OpenStep(k) == OpenNoWatcher(k) \/ OpenSucceed(k) \/ OpenFail(k) \/ OpenCancel(k) \/ OpenSendErr(k)

\* every task counted by the WaitGroup has returned
AllExited ==
  /\ \A f \in Files : fol[f].ev \in {"none", "done"} /\ fol[f].rd \in {"none", "done"}
  /\ \A k \in Openers : opener[k].pc \in {"none", "done"}

\* FairSpec: both modes without faults, one file and its rotation, Close at any
\* time, a consumer that keeps receiving; while anything can run, something does
FairBudget(w) ==
  [NoBudget EXCEPT !.files = 1, !.writes = w, !.renames = MaxRenames, !.closes = 1]

InitFair ==
  /\ InitCommon
  /\ opts = 0
  /\ \/ InitFile /\ budget = FairBudget(MaxFairWrites)
     \/ InitReaderMode /\ budget = FairBudget(Len(Chunk(1, "l")))

FairNext == HandleNext \/ FileNext \/ RotateNext \/ StreamRead \/ StreamWrite \/ StreamEnd

\* every step of the program and of the consumer, the environment's left out
ProgramNext ==
  \/ \E f \in Files : ReaderStep(f) \/ EventStep(f) \/ TimerFire(f)
  \/ \E k \in Openers : OpenStep(k)
  \/ SupCloseErrors \/ SupCloseLines \/ CloseReturn
  \/ ConsumeLine \/ ConsumeError

\* the weakest scheduling assumption: while some goroutine, timer or the consumer
\* can take a step, one of them eventually does
Fairness == WF_vars(ProgramNext)

FairSpec == InitFair /\ [][FairNext]_vars /\ Fairness

\* ---------------------------------------------------------------- properties
\* C1: each channel is closed at most once, only after every task counted by the
\* WaitGroup has returned, and no task sends on a channel that is closed
C1_ClosedOnceAfterExit ==
  /\ closed.lines <= 1
  /\ closed.errors <= 1
  /\ (closed.lines > 0 \/ closed.errors > 0) => AllExited
  /\ ~hist.lateSend

\* both channels closed after a rotation: the follower and the goroutine the
\* rotation started have both come and gone
C1_Witness ==
  /\ closed.lines = 1
  /\ closed.errors = 1
  /\ fol[1].ev = "done"
  /\ fol[1].rd = "done"
  /\ opener[1].pc = "done"

\* C2: once Close has cancelled the token, with a consumer that keeps receiving,
\* eventually Close has returned, both channels are closed and every task counted
\* by the WaitGroup has returned
C2_CloseTerminates ==
  (closer = "waiting") ~>
    (closer = "returned" /\ closed.lines = 1 /\ closed.errors = 1 /\ AllExited)

\* Close was called with the old file's reader parked at EOF inside the grace
\* window and the rotation's goroutine waiting to retry the open
C2_Witness ==
  /\ closer = "waiting"
  /\ fol[1].rd = "park"
  /\ fol[1].timer = "armed"
  /\ ~fol[1].cancelled
  /\ opener[1].pc = "wait"

\* follower f is at rest: its reader is parked, the event loop has taken the
\* EOF signal and sits in its select, and no event, wake-up or signal is pending
AtRest(f) ==
  /\ fol[f].rd = "park"
  /\ fol[f].ev = "select"
  /\ fol[f].waiting
  /\ fol[f].evq = <<>>
  /\ fol[f].ch = 0
  /\ fol[f].cherr = <<>>
  /\ ~Done(f)

\* the bytes of file f beyond the cursor of its follower
Unread(f) == Suffix(files[f].content, Min(fol[f].pos, Len(files[f].content)))

\* C3: no write event is lost around the EOF signal: a reader at rest, with
\* nothing left that would wake it, has read its file to the end
C3_NoLostWake == \A f \in Files : AtRest(f) => Unread(f) = <<>>

\* every file ever created is followed from its first byte and its follower is
\* at rest, every write has been made, every Line sent has been received, and
\* Close has not been called
Settled ==
  /\ budget.writes = 0
  /\ \A f \in Created : AtRest(f) /\ fol[f].start = 0
  /\ lines = <<>>
  /\ closer = "idle"

\* C4: across a rotation, with every write made inside the grace window of its
\* file and the handle not yet closed, once the followers are at rest as many
\* Lines have been delivered as lines were written
C4_RotationCount ==
  (Settled /\ path # 0 /\ \E f \in Files : files[f].st = "renamed" /\ fol[f].renamed)
    => Len(delivered) = CountNL(hist.written)

\* the bytes written so far end a line
WholeLines(b) == b # <<>> /\ b[Len(b)] = NL

\* C5: the bytes B appended to a followed file that is neither truncated nor
\* removed, B ending a line: once the follower is at rest the texts of the Lines
\* delivered, concatenated in order, are B
C5_ConcatIsWritten ==
  (Settled /\ WholeLines(hist.written) /\ hist.truncated = {} /\ files[1].st = "atPath")
    => Flat(Texts(delivered)) = hist.written

\* the Lines follower f has sent so far, received or still in the channel
EmittedBy(f) == SelectSeq(delivered \o lines, LAMBDA l : l.src = f)

\* C6: for every follower, at every point and under every MaxBytesLine, the texts
\* of the Lines it has emitted followed by its carry buffer are the bytes
\* ReadSlice has handed to tail() so far, and those followed by the bytes the
\* buffered reader still holds are the bytes read from the file or the stream
C6_CarryContract ==
  \A f \in Files :
    /\ Flat(Texts(EmittedBy(f))) \o fol[f].carry = fol[f].sliced
    /\ fol[f].sliced \o fol[f].rb.buf = fol[f].got

\* under a MaxBytesLine, a follower that has emitted a Line cut short by the cap
\* (no newline at its end) is parked after an EOF in the middle of a line, the
\* partial line in its carry buffer
C6_Witness ==
  \E f \in Files :
    /\ opts > 0
    /\ \E i \in 1..Len(EmittedBy(f)) : ~WholeLines(EmittedBy(f)[i].text)
    /\ fol[f].carry # <<>>
    /\ fol[f].rd = "park"

RECURSIVE SplitLines(_)
\* the complete lines of b, each with its newline
SplitLines(b) ==
  IF IndexNL(b) = 0 THEN <<>>
  ELSE <<Prefix(b, IndexNL(b))>> \o SplitLines(Suffix(b, IndexNL(b)))

\* how many of the Lines delivered carry the text t
Deliveries(t) == Cardinality({i \in 1..Len(delivered) : delivered[i].text = t})

\* C7: the file truncated in place and written again from offset 0: once the
\* follower is at rest with its cursor at the end of the file, every line the
\* file holds, all written after the truncation, has been delivered exactly once
C7_TruncateRewrite ==
  (Settled /\ 1 \in hist.truncated /\ files[1].st = "atPath" /\ Unread(1) = <<>>)
    => \A i \in 1..Len(SplitLines(files[1].content)) :
         Deliveries(SplitLines(files[1].content)[i]) = 1

\* C8: a reader that is sending a Line when its token is cancelled can still
\* take a step, even though the consumer has stopped receiving
C8_BlockedSendExits ==
  \A f \in Files :
    (fol[f].rd = "sendLine" /\ Done(f) /\ ~consuming) => ENABLED ReaderStep(f)

\* C9: a task that is reporting an error on the errors channel when the handle's
\* token is cancelled can still take a step, even though the consumer has
\* stopped receiving
C9_ErrorSendExits ==
  /\ \A f \in Files :
       (fol[f].ev = "sendErr" /\ rootDone /\ ~consuming) => ENABLED EventStep(f)
  /\ \A f \in Files :
       (fol[f].rd = "sendErr" /\ rootDone /\ ~consuming) => ENABLED ReaderStep(f)
  /\ \A k \in Openers :
       (opener[k].pc = "sendErr" /\ rootDone /\ ~consuming) => ENABLED OpenStep(k)

\* C10: no cancellation error is ever put on the errors channel
C10_NoCancelError ==
  /\ \A i \in 1..Len(errors) : errors[i] # "Canceled"
  /\ \A i \in 1..Len(gotErrors) : gotErrors[i] # "Canceled"

\* no error has been sent on the errors channel
NoErrorYet == errors = <<>> /\ gotErrors = <<>>

\* C11: following a path where no file is: as long as no file has appeared the
\* open is retried and no error is sent; a file that stands at the path at a retry
\* can be opened and followed; and once Close is called during the wait, unless a
\* file appears after all, the goroutine of Tail.open returns, Close returns and
\* both channels are closed with no error sent
C11_OpenWaitsQuietly ==
  /\ []((mode = "file" /\ Created = {}) =>
         (NoErrorYet /\ opener[0].pc \in {"try", "wait", "done"}))
  /\ []((opener[0].pc = "wait" /\ path # 0) => ENABLED OpenSucceed(0))
  /\ (mode = "file" /\ closer = "waiting" /\ Created = {}) ~>
       \/ Created # {}
       \/ /\ closer = "returned"
          /\ opener[0].pc = "done"
          /\ closed.lines = 1 /\ closed.errors = 1
          /\ NoErrorYet

\* Close was called while Tail.open waited for a file that never came, and has
\* returned: both channels are closed and nothing was sent on either
C11_Witness ==
  /\ mode = "file"
  /\ Created = {}
  /\ opener[0].seek = "start"
  /\ opener[0].pc = "done"
  /\ closer = "returned"
  /\ closed.lines = 1 /\ closed.errors = 1
  /\ NoErrorYet /\ delivered = <<>>

\* C12: a follower starts at the end of its file, whatever the file holds, exactly
\* when it is opened by the very first attempt of the first Tail.open; opened
\* after a failed attempt, or by the Tail.open a rotation started, it starts at
\* offset 0
C12_StartOffset ==
  [][\A f \in Files :
       (fol[f].ev = "none" /\ fol'[f].ev # "none") =>
         fol'[f].start = IF opener[0].pc = "try" /\ opener'[0].pc = "done"
                         THEN Len(files[f].content) ELSE 0]_vars

\* the first file held a line when the first attempt opened it and is followed
\* from its end; the file the rotation brought held a line too when it was opened
\* and is followed from offset 0, its line read
C12_Witness ==
  /\ fol[1].start > 0
  /\ fol[2].ev # "none"
  /\ fol[2].start = 0
  /\ fol[2].got # <<>>
  /\ fol[1].got = <<>>

\* C13: with MaxBytesLine = M > 0 no Line sent or received has a text longer
\* than M bytes, whatever M is against the reader's buffer sizes and whatever
\* the input
C13_LineWithinLimit ==
  opts > 0 =>
    /\ \A i \in 1..Len(delivered) : Len(delivered[i].text) <= opts
    /\ \A i \in 1..Len(lines) : Len(lines[i].text) <= opts

\* C14: in file mode with MaxBytesLine unset every Line text, sent or received,
\* ends with a newline and holds no other, and there are never more Lines than
\* newlines written: bytes written without a newline wait in the carry buffer and
\* produce no Line by themselves
C14_WholeLinesOnly ==
  (mode = "file" /\ opts = 0) =>
    /\ \A i \in 1..Len(delivered) :
         WholeLines(delivered[i].text) /\ CountNL(delivered[i].text) = 1
    /\ \A i \in 1..Len(lines) :
         WholeLines(lines[i].text) /\ CountNL(lines[i].text) = 1
    /\ Len(delivered) + Len(lines) <= CountNL(hist.written)

\* "1", "2" and "3\n" were written in three writes and one Line holding all four
\* bytes, more than the reader's buffer holds, arrived
C14_Witness ==
  /\ mode = "file" /\ opts = 0
  /\ hist.nwrites = 3
  /\ fol[1].sliced = <<1, 2, 3, NL>>
  /\ Len(delivered) = 1
  /\ delivered[1].text = <<1, 2, 3, NL>>
  /\ lines = <<>>

\* FairReaderSpec: reader mode under the same scheduling: a stream written in
\* partial and whole lines that ends, is closed under the reader or fails
InitFairReader ==
  /\ InitCommon
  /\ opts = 0
  /\ InitReaderMode
  /\ budget = [NoBudget EXCEPT !.writes = MaxSingleWrites, !.faults = 1, !.closes = 1,
                               !.shapes = {"p", "l"}]

FairReaderSpec == InitFairReader /\ [][HandleNext \/ ReaderNext]_vars /\ Fairness

\* FairRemoveSpec: file mode under the same scheduling: one file, written to,
\* removed at any time, Close at any time, a consumer that keeps receiving
InitFairRemove ==
  /\ InitCommon
  /\ opts = 0
  /\ InitFile
  /\ budget = [NoBudget EXCEPT !.files = 1, !.writes = MaxFairWrites,
                               !.removes = MaxRemoves, !.closes = 1]

FairRemoveSpec ==
  InitFairRemove /\ [][HandleNext \/ FileNext \/ \E f \in Files : EnvRemove(f)]_vars
    /\ Fairness

\* FairGoneSpec: file mode under the same scheduling with a caller that never
\* closes: MaxFiles files created at the path one after the other, one write,
\* a removal at any time, one injected fault, a consumer that keeps receiving
GoneNext ==
  \/ SupCloseErrors \/ SupCloseLines \/ ConsumeLine \/ ConsumeError
  \/ \E f \in Files :
       \/ TailSendLine(f) \/ RdRestrict(f) \/ FileRead(f) \/ RdSendCherr(f) \/ RdPark(f)
       \/ EvStart(f) \/ EvEvent(f) \/ EvWake(f) \/ EvCherr(f) \/ EvSendErr(f)
       \/ RdReportErr(f) \/ EvWatcherErr(f)
       \/ EnvWrite(f) \/ EnvRemove(f)
  \/ \E k \in Openers :
       OpenSucceed(k) \/ OpenFail(k) \/ OpenNoWatcher(k) \/ OpenSendErr(k)
  \/ EnvCreate

InitFairGone ==
  /\ InitCommon
  /\ opts = 0
  /\ InitFile
  /\ budget = [NoBudget EXCEPT !.files = MaxFiles, !.writes = MaxFairWrites, !.faults = 1,
                               !.removes = MaxRemoves]

FairGoneSpec == InitFairGone /\ [][GoneNext]_vars /\ Fairness

\* the stream of reader mode has ended: closed by its writer or closed under
\* the reader
StreamEnded == mode = "reader" /\ stream.st \in {"EOF", "ClosedPipe"}

\* C15: in reader mode, once the stream has ended with io.EOF or io.ErrClosedPipe
\* the follower returns and both channels get closed, Close called or not, and
\* nothing is ever sent on the errors channel; a Close called afterwards finds
\* nothing to wait for and returns
C15_StreamEndIsQuiet ==
  /\ []((mode = "reader" /\ stream.st # "IOErr") => NoErrorYet)
  /\ StreamEnded ~>
       (fol[1].rd = "done" /\ closed.lines = 1 /\ closed.errors = 1 /\ NoErrorYet)
  /\ []((StreamEnded /\ fol[1].rd = "done" /\ closer = "waiting") => ENABLED CloseReturn)
  /\ (StreamEnded /\ closer = "waiting") ~> closer = "returned"

\* the reader side of the pipe was closed after a line was written: the line has
\* arrived, the follower has returned and both channels are closed with nothing
\* sent on the errors channel, and Close has not been called
C15_Witness ==
  /\ mode = "reader"
  /\ stream.st = "ClosedPipe"
  /\ closer = "idle"
  /\ fol[1].rd = "done"
  /\ closed.lines = 1 /\ closed.errors = 1
  /\ Len(delivered) = 1
  /\ NoErrorYet

\* follower f has ended on an error of its own: the error is not a cancellation
\* and the consumer has it
FailedAlone(f) ==
  /\ fol[f].ev = "done"
  /\ fol[f].evpend \notin {"nil", "Canceled"}
  /\ gotErrors = <<fol[f].evpend>>

\* C16: an error that ends one follower ends that follower only: in file mode
\* the root token is cancelled by Close and by nothing else, and a follower's own
\* token is cancelled only by that follower's return or by its own grace timer;
\* a follower returns only on Close, on its own grace timer, on an error of its
\* own or on the removal of its file, so a sibling runs on until Close
C16_FailureStaysLocal ==
  mode = "file" =>
    /\ rootDone => closer # "idle"
    /\ \A g \in Files :
         fol[g].cancelled => (fol[g].ev = "done" \/ fol[g].timer = "fired")
    /\ \A g \in Files :
         (fol[g].ev = "done" /\ ~rootDone /\ fol[g].timer # "fired") =>
           \/ fol[g].evpend \notin {"nil", "Canceled"}
           \/ files[g].st = "removed"

\* the rotated file's follower has ended on an error of its own that the
\* consumer has received; the follower of the new file runs on, has read the line written
\* to its file and is not cancelled; Close has not been called
C16_Witness ==
  /\ FailedAlone(1)
  /\ closer = "idle" /\ ~rootDone
  /\ fol[2].ev \in {"select", "wake"}
  /\ ~fol[2].cancelled
  /\ fol[2].got # <<>>
  /\ \E i \in 1..Len(delivered) : delivered[i].src = 2

\* C17: Tail.open waits and retries only after os.Open reported that the file
\* does not exist; after any other failure of os.Open the goroutine goes on to
\* send that error on the errors channel and returns
C17_RetryOnlyNotFound ==
  \A k \in Openers :
    /\ opener[k].pc = "wait" => opener[k].operr = "NotExist"
    /\ opener[k].operr = "OpenErr" =>
         (opener[k].pc \in {"sendErr", "done"} /\ opener[k].pend = "OpenErr")

\* C18: once a follower has terminated, its event loop and its reader goroutine
\* both returned, the file it read from has been closed
C18_FileClosedAtExit ==
  \A f \in Files :
    (fol[f].ev = "done" /\ fol[f].rd \in {"none", "done"}) => ~fol[f].fileOpen

\* C19: Close may be called again, after the first call has returned or while
\* it waits: neither channel is ever closed twice, nothing is sent on a closed
\* channel, the second call waits for the same tasks as the first and can return
\* as soon as they are gone, at once when the first call has returned
C19_CloseTwice ==
  /\ closed.lines <= 1 /\ closed.errors <= 1
  /\ ~hist.lateSend
  /\ closer2 # "idle" => (rootDone /\ closer # "idle")
  /\ (closer2 = "waiting" /\ AllExited) => ENABLED CloseAgainReturn
  /\ (closer2 = "waiting" /\ closer = "returned") => ENABLED CloseAgainReturn
  /\ (closer = "waiting" /\ closer2 = "returned") => ENABLED CloseReturn

\* Close was called a second time while the first call was waiting; the second
\* call has returned, the first has not yet, a line was delivered and each
\* channel has been closed once
C19_Witness ==
  /\ closer = "waiting"
  /\ closer2 = "returned"
  /\ closed.lines = 1 /\ closed.errors = 1
  /\ delivered # <<>>

\* s is a prefix of t
IsPrefix(s, t) == Len(s) <= Len(t) /\ s = Prefix(t, Len(s))

ReadBlocked == mode = "reader" /\ stream.st = "open" /\ stream.data = <<>>

\* C21: in reader mode a cancelled token makes the follower's Read return at
\* once, blocked underlying read or not, and from Close called while the read
\* of the stream is blocked, with the stream never written to or ended again,
\* the follower returns and Close returns
C21_BlockedReadCloses ==
  /\ []((mode = "reader" /\ rootDone /\ fol[1].rd = "tail") => ENABLED StreamRead)
  /\ (ReadBlocked /\ closer = "waiting") ~>
       \/ ~ReadBlocked
       \/ closer = "returned" /\ fol[1].rd = "done" /\ wg = 0

\* Close has returned on a stream that was never written to and never ended
C21_Witness ==
  /\ ReadBlocked
  /\ hist.written = <<>>
  /\ closer = "returned"
  /\ fol[1].rd = "done"
  /\ closed.lines = 1 /\ closed.errors = 1

\* C22: Tail.wait closes the errors channel strictly before the lines channel:
\* whenever the lines channel is closed the errors channel is, nothing is closed
\* while the WaitGroup still counts a task, and between the two closes the
\* errors channel alone is closed
C22_ErrorsClosedFirst ==
  /\ closed.lines >= 1 => closed.errors >= 1
  /\ closed.errors >= 1 => wg = 0
  /\ sup = "errorsClosed" => (closed.errors = 1 /\ closed.lines = 0)
  /\ sup = "done" => (closed.errors = 1 /\ closed.lines = 1)

\* between the two closes, after a line was delivered: the errors channel is
\* closed and the lines channel is not
C22_Witness ==
  /\ sup = "errorsClosed"
  /\ closed.errors = 1
  /\ closed.lines = 0
  /\ delivered # <<>>

\* C23: a follower hands off at most once: whatever rename events it receives,
\* it starts at most one Tail.runFile for the path and at most one grace timer,
\* and it does both while handling its first rename event
C23_HandoffOnce ==
  /\ [](\A f \in Files : fol[f].handoffs <= 1)
  /\ [][\A f \in Files :
         /\ fol'[f].handoffs # fol[f].handoffs =>
              (~fol[f].renamed /\ fol[f].timer = "none" /\ fol'[f].timer = "armed"
               /\ opener[f].pc = "none" /\ opener'[f].pc = "try")
         /\ (fol[f].timer # "armed" /\ fol'[f].timer = "armed") =>
              fol'[f].handoffs # fol[f].handoffs
         /\ (opener[f].pc # "try" /\ opener'[f].pc = "try") =>
              fol'[f].handoffs # fol[f].handoffs]_vars

\* the follower has handled two rename events, the rotation and a further
\* rename of the rotated file, and has handed off once
C23_Witness ==
  /\ fol[1].renamed
  /\ fol[1].handoffs = 1
  /\ budget.renames = 0
  /\ fol[1].evq = <<>>
  /\ fol[1].ev \in {"select", "wake"}
  /\ fol[1].timer = "armed"

\* the followers that are running, event loop or reader goroutine, and hold
\* the file Tail.open opened for them
HoldingFile ==
  {f \in Files : /\ fol[f].fileOpen
                 /\ ~(fol[f].ev \in {"none", "done"} /\ fol[f].rd \in {"none", "done"})}

\* C24: whatever the rotations, at most two followers hold an open file at the
\* same time
C24_TwoDescriptors == Cardinality(HoldingFile) <= 2

\* follower f is inside its grace window: it has handled the rename of its
\* file, its timer has not fired and nothing else has cancelled it
InGrace(f) == fol[f].renamed /\ fol[f].timer = "armed" /\ ~Done(f)

\* C25: between the rename and the grace timer the old follower goes on
\* emitting what is appended to the renamed file: inside its grace window a
\* follower that had read all its file held at the rename and is at rest, with
\* nothing left that would wake it, has read all that was appended since
C25_GraceKeepsReading ==
  \A f \in Files :
    (InGrace(f) /\ AtRest(f) /\ fol[f].pos >= hist.atRename[f]) => Unread(f) = <<>>

\* the watcher of follower f has queued the removal of its file
RemoveQueued(f) == \E i \in 1..Len(fol[f].evq) : fol[f].evq[i] = "rm"

\* follower f has ended: its event loop and its reader goroutine have returned
Ended(f) == fol[f].ev = "done" /\ fol[f].rd \in {"none", "done"}

\* C26: a follower whose file is removed ends: from the removal event queued,
\* its event loop and its reader goroutine both return; nothing is sent on the
\* errors channel unless Close was called on the running follower, and nothing
\* after the follower's event loop has returned; no goroutine of Tail.runFile is
\* started for the path by the removal
C26_RemoveEndsQuietly ==
  /\ \A f \in Files : RemoveQueued(f) ~> Ended(f)
  /\ [](closer = "idle" => NoErrorYet)
  /\ [][(fol[1].ev = "done" /\ NoErrorYet) => NoErrorYet']_vars
  /\ [](\A k \in Openers : k # 0 => opener[k].pc = "none")
  /\ [][opener[0].pc = "done" => opener'[0].pc = "done"]_vars
  /\ [][\A f \in Files :
         (fol[f].ev = "select" /\ fol'[f].ev = "done" /\ ~Done(f)) =>
           (fol[f].evq # <<>> /\ Head(fol[f].evq) = "rm" /\ opener' = opener
            /\ errors' = errors /\ wg' = wg - 1)]_vars

\* the file was removed after its line had been delivered: the follower has
\* ended, nothing was sent on the errors channel, no goroutine is left and Close
\* has not been called
C26_Witness ==
  /\ files[1].st = "removed"
  /\ Ended(1)
  /\ closer = "idle" /\ ~rootDone
  /\ delivered # <<>>
  /\ NoErrorYet
  /\ wg = 0

\* C27: the cursor of a follower's file goes back only in restrict(), only when
\* the file is smaller than the cursor, and then to 0; restrict() leaves the
\* cursor alone otherwise, and no read moves it back
C27_CursorMonotone ==
  [][\A f \in Files :
       /\ fol'[f].pos < fol[f].pos =>
            /\ fol[f].rd = "restrict" /\ fol'[f].rd = "tail"
            /\ Len(files[f].content) < fol[f].pos
            /\ fol'[f].pos = 0
       /\ (fol[f].rd = "restrict" /\ fol'[f].rd = "tail") =>
            fol'[f].pos = IF Len(files[f].content) < fol[f].pos THEN 0 ELSE fol[f].pos
       /\ (fol[f].rd = "tail" /\ fol[f].ev # "none") => fol'[f].pos >= fol[f].pos]_vars

\* the file was truncated after the follower had read from it, and restrict()
\* has put the cursor back to 0
C27_Witness ==
  /\ 1 \in hist.truncated
  /\ fol[1].rd = "tail"
  /\ fol[1].got # <<>>
  /\ fol[1].pos = 0
  /\ Len(files[1].content) = 0

\* C28: a Tail.open that has returned, on cancellation as on any other way out,
\* holds no open watcher, and once both channels are closed no watcher is open,
\* a follower's or a Tail.open's
C28_WatcherClosedOnCancel ==
  /\ \A k \in Openers : opener[k].pc = "done" => ~opener[k].watcher
  /\ (closed.lines = 1 /\ closed.errors = 1) =>
       /\ \A k \in Openers : ~opener[k].watcher
       /\ \A f \in Files : ~fol[f].watching

\* C29: the event loop never blocks on the wake channel: whenever it is about to
\* send the wake signal the channel (capacity 1) is empty and the send can be
\* made; the flag is set only while the reader is past its EOF and the channel
\* is empty, and the channel never holds more than one signal
C29_WakeNeverBlocks ==
  \A f \in Files :
    /\ fol[f].ev = "wake" => (fol[f].ch = 0 /\ fol[f].waiting /\ ENABLED EvWake(f))
    /\ fol[f].waiting => fol[f].ch = 0
    /\ fol[f].ch <= 1

\* the event loop is about to wake the reader, which has delivered a line, has
\* read further bytes up to the end of the file and is parked again; the wake
\* channel is empty
C29_Witness ==
  /\ fol[1].ev = "wake"
  /\ fol[1].rd = "park"
  /\ fol[1].ch = 0
  /\ fol[1].start = 0
  /\ Len(delivered) = 1
  /\ Len(fol[1].got) > Len(delivered[1].text)

\* the goroutines the WaitGroup counts that have not returned: event loops,
\* reader goroutines (runReader in reader mode) and Tail.runFile goroutines
Counted ==
  Cardinality({f \in Files : fol[f].ev \notin {"none", "done"}})
  + Cardinality({f \in Files : fol[f].rd \notin {"none", "done"}})
  + Cardinality({k \in Openers : opener[k].pc \notin {"none", "done"}})

\* C30: every wg.Add after construction is made at a counter of 1 or more, by a
\* goroutine that is counted itself; the counter is the number of counted
\* goroutines still running, so it is 0 only when none is left; from 0 it never
\* rises again; and Tail.wait gets past wg.Wait() only at 0
C30_CountedAdds ==
  /\ [](hist.wgAtAdd = -1 \/ hist.wgAtAdd >= 1)
  /\ [](wg = Counted)
  /\ [](sup # "wait" => (wg = 0 /\ AllExited))
  /\ [][wg = 0 => wg' = 0]_vars
  /\ [][wg' > wg => wg >= 1]_vars

\* after a rotation: the follower's event loop, its reader goroutine and the
\* Tail.runFile started for the path are running, three counted goroutines,
\* every Add made at a counter of 1 or more
C30_Witness ==
  /\ wg = 3
  /\ hist.wgAtAdd = 1
  /\ fol[1].rd \notin {"none", "done"} /\ fol[1].ev \notin {"none", "done"}
  /\ opener[1].pc = "wait"
  /\ opener[0].pc = "done"

\* no goroutine of the handle is left: every follower that was started has
\* ended and no Tail.runFile is opening the path or reporting an error
NoTaskLeft ==
  /\ \A f \in Files : fol[f].ev \in {"none", "done"} /\ fol[f].rd \in {"none", "done"}
  /\ \A k \in Openers : opener[k].pc \in {"none", "done"}

\* both channels of the handle are closed
BothClosed == sup = "done" /\ closed.errors = 1 /\ closed.lines = 1

\* C31: in file mode the handle closes by itself when its last goroutine
\* returns, Close called or not: with no goroutine left the WaitGroup is at
\* zero, from there Tail.wait closes both channels, and once they are closed
\* nothing is sent on the lines channel and no follower or Tail.runFile starts
\* or moves again, whatever is created at the path or written afterwards
C31_ClosedForGood ==
  /\ [](NoTaskLeft => wg = 0)
  /\ NoTaskLeft ~> BothClosed
  /\ [][BothClosed => /\ BothClosed'
                      /\ lines' = lines \/ (lines # <<>> /\ lines' = Tail(lines))
                      /\ Len(delivered') + Len(lines') = Len(delivered) + Len(lines)
                      /\ fol' = fol
                      /\ opener' = opener]_vars

\* the first file was removed and the handle closed both channels with Close
\* never called; a second file was then created at the path and a line written
\* to it: no follower was started on it and nothing of it has been delivered
C31_Witness ==
  /\ closer = "idle" /\ ~rootDone
  /\ BothClosed
  /\ files[1].st = "removed"
  /\ fol[1].ev = "done"
  /\ path = 2 /\ files[2].content # <<>>
  /\ fol[2] = NoFollower
  /\ delivered = <<>> /\ lines = <<>>

====
